---- MODULE Spec2Model ----
(***************************************************************************)
(* A model of the Nemo Store dashboard script (src/app.py): the price      *)
(* conversion and formatting helpers, the loader of the listings table,    *)
(* and the render cycle that Streamlit re-runs top to bottom after every   *)
(* widget interaction (unit radio, category select box, station text box,  *)
(* premium check box, rent slider, detail select box).                     *)
(*                                                                         *)
(* Numbers.  Python floats are modelled as exact rationals [n, d] in       *)
(* lowest terms; int() truncates, // floors, % is the floor remainder.     *)
(* Prices are non-negative, so truncation and floor coincide.              *)
(* Text that is searched (titles, station names, the search box) is a      *)
(* sequence of one-character strings; text that is only displayed is a     *)
(* string.                                                                 *)
(***************************************************************************)
EXTENDS Integers, Sequences, FiniteSets, TLC

VARIABLES
    pc,                  \* "start" | "running" | "stopped" | "calc"
    db,                  \* rows of table nemo_stores as stored in SQLite
    columns,             \* column names of that table
    raw_df,              \* result of load_db_data (cached)
    unit_choice,         \* st.sidebar.radio
    sel_ind,             \* st.selectbox of the category
    search_station,      \* st.text_input
    hide_premium_closed, \* st.checkbox
    rent_range,          \* st.slider value (or the collapsed pair)
    selected_title,      \* st.selectbox of the detail view
    md_file,             \* data_json_html.md
    base_comment,        \* extract_agent_comment(load_html_from_md(md_path))
    f_df,                \* filtered frame: the kept row labels, in order
    view,                \* what the render cycle handed to the widgets
    call,                \* helper exercised in isolation: [fn, val, unit]
    ret                  \* its result

vars == <<pc, db, columns, raw_df, unit_choice, sel_ind, search_station,
          hide_premium_closed, rent_range, selected_title, md_file,
          base_comment, f_df, view, call, ret>>

\* ------------------------------------------------------------------ values

\* A missing number (SQL NULL, None, NaN): the "rational" with denominator 0.
NaN == [n |-> 0, d |-> 0]

\* pd.isna(val) or val is None
isna(x) == x.d = 0

\* ---------------------------------------------------------------- rationals

Abs(i) == IF i < 0 THEN -i ELSE i

RECURSIVE GCD(_, _)
GCD(a, b) == IF b = 0 THEN a ELSE GCD(b, a % b)

\* n/d in lowest terms, d > 0.
Rat(n, d) == LET g == GCD(Abs(n), d) IN [n |-> n \div g, d |-> d \div g]

FromInt(i) == [n |-> i, d |-> 1]

RatLe(a, b) == a.n * b.d <= b.n * a.d

RatLt(a, b) == a.n * b.d < b.n * a.d

RatAdd(a, b) == Rat(a.n * b.d + b.n * a.d, a.d * b.d)

RatSub(a, b) == Rat(a.n * b.d - b.n * a.d, a.d * b.d)

RatMulInt(a, k) == Rat(a.n * k, a.d)

RatDivInt(a, k) == Rat(a.n, a.d * k)

\* Python a // k on a float a and an int k > 0: the floor of the quotient.
RatFloorDiv(a, k) == a.n \div (a.d * k)

\* Python a % k: a - k * (a // k).
RatMod(a, k) == Rat(a.n - k * a.d * RatFloorDiv(a, k), a.d)

\* Python int(a): truncation toward zero.
RatTrunc(a) == IF a.n >= 0 THEN a.n \div a.d ELSE -((-a.n) \div a.d)

\* Rounding of format spec ".0f": to the nearest integer, ties to even.
\* A tie is a value x.5, which a binary float holds exactly.
RoundHalfEven(a) ==
    LET fl   == a.n \div a.d
        twoR == 2 * (a.n - fl * a.d)
    IN  IF twoR < a.d THEN fl
        ELSE IF twoR > a.d THEN fl + 1
        ELSE IF fl % 2 = 0 THEN fl ELSE fl + 1

\* ------------------------------------------------------------ number text

\* The three digits of a group after the first one: "007", "045", "345".
Pad3(i) ==
    IF i < 10 THEN "00" \o ToString(i)
    ELSE IF i < 100 THEN "0" \o ToString(i)
    ELSE ToString(i)

\* Format spec "," on a non-negative int: thousands separated by commas.
RECURSIVE Grouped(_)
Grouped(i) ==
    IF i < 1000 THEN ToString(i)
    ELSE Grouped(i \div 1000) \o "," \o Pad3(i % 1000)

\* Format spec ",.0f".
GroupedF0(a) == Grouped(RoundHalfEven(a))

\* --------------------------------------------------------- price helpers

EokUnit == 10000

MinorDivisor == 10

MajorFactor == 1000

\* app.py:101 convert_price(val, to_unit)
convert_price(val, to_unit) ==
    IF isna(val) THEN FromInt(0)
    ELSE IF to_unit = "원" THEN FromInt(RatTrunc(RatMulInt(val, MajorFactor)))
    ELSE RatDivInt(val, MinorDivisor)

\* format_price_display with the 억 branch taken only above 10,000.
format_price_display_above(val, unit) ==
    IF isna(val) THEN (IF unit = "만" THEN "nan만" ELSE "₩nan")
    ELSE IF val = FromInt(0) THEN "-"
    ELSE IF unit = "만" THEN
        IF RatLt(FromInt(EokUnit), val) THEN
            LET eok == RatFloorDiv(val, EokUnit)
                man == RatTrunc(RatMod(val, EokUnit))
            IN  IF man > 0
                THEN ToString(eok) \o "억 " \o Grouped(man) \o "만"
                ELSE ToString(eok) \o "억"
        ELSE GroupedF0(val) \o "만"
    ELSE "₩" \o GroupedF0(val)

\* app.py:111 format_price_display(val, unit)
format_price_display(val, unit) ==
    IF isna(val) THEN (IF unit = "만" THEN "nan만" ELSE "₩nan")
    ELSE IF val = FromInt(0) THEN "-"
    ELSE IF unit = "만" THEN
        IF RatLe(FromInt(EokUnit), val) THEN
            LET eok == RatFloorDiv(val, EokUnit)
                man == RatTrunc(RatMod(val, EokUnit))
            IN  IF man > 0
                THEN ToString(eok) \o "억 " \o Grouped(man) \o "만"
                ELSE ToString(eok) \o "억"
        ELSE GroupedF0(val) \o "만"
    ELSE "₩" \o GroupedF0(val)

\* --------------------------------------------------------------------- text

\* An optional text cell: None (SQL NULL) or a str, held as its characters.
NoneText == [na |-> TRUE, s |-> <<>>]

Text(s) == [na |-> FALSE, s |-> s]

\* Python `sub in s` on str.
Contains(s, sub) ==
    \E i \in 0..(Len(s) - Len(sub)) :
        \A j \in 1..Len(sub) : s[i + j] = sub[j]

\* re.search(pat, s) for the patterns the search box is given here: every
\* character matches itself, except ".", which matches any one character.
RegexSearch(pat, s) ==
    \E i \in 0..(Len(s) - Len(pat)) :
        \A j \in 1..Len(pat) : pat[j] = "." \/ s[i + j] = pat[j]

\* Series.str.contains(pat, na=False) on one cell: regex=True is the default.
str_contains(cell, pat) ==
    IF cell.na THEN FALSE ELSE RegexSearch(pat, cell.s)

\* -------------------------------------------------------------------- loader

\* The JSON text of a photo list: "u" stands for one quoted URL.  A value is
\* a JSON array exactly when it reads [ ], [u], [u,u], ...
IsJsonArray(s) ==
    /\ Len(s) >= 2
    /\ s[1] = "[" /\ s[Len(s)] = "]"
    /\ LET inner == SubSeq(s, 2, Len(s) - 1)
       IN  \/ inner = <<>>
           \/ /\ Len(inner) % 2 = 1
              /\ \A k \in 1..Len(inner) :
                    inner[k] = (IF k % 2 = 1 THEN "u" ELSE ",")

\* json.loads on such a text: the list of its URLs.
json_loads(s) == [k \in 1..(Len(s) - 1) \div 2 |-> "u"]

\* app.py:77, the lambda applied to one cell of a JSON column.  The result is
\* a list, the str itself (x if x else []), or the JSONDecodeError raised.
decode_cell(x) ==
    IF ~x.na /\ Len(x.s) > 0 /\ x.s[1] = "["
    THEN IF IsJsonArray(x.s)
         THEN [kind |-> "list", v |-> json_loads(x.s)]
         ELSE [kind |-> "raise", v |-> <<>>]
    ELSE IF ~x.na /\ Len(x.s) > 0
         THEN [kind |-> "str", v |-> x.s]
         ELSE [kind |-> "list", v |-> <<>>]

\* app.py:74
json_cols == {"small_photo_urls", "origin_photo_urls"}

\* app.py:75-77, one cell of one column: decoded when the column is one of
\* json_cols and a column of the table (an absent column holds nothing).
decode_col(col, x, cols) ==
    IF col \in json_cols /\ col \in cols
    THEN decode_cell(x)
    ELSE [kind |-> "list", v |-> <<>>]

decode_row(r, cols) ==
    [r EXCEPT !.small_photo_urls = decode_col("small_photo_urls", @, cols),
              !.origin_photo_urls = decode_col("origin_photo_urls", @, cols)]

\* app.py:63 load_db_data: an exception anywhere in the try block (here: a
\* cell whose json.loads raises) is caught and an empty DataFrame returned.
load_db_data(rows, cols) ==
    LET decoded == [i \in 1..Len(rows) |-> decode_row(rows[i], cols)]
        raised  == \E i \in 1..Len(rows) :
                      \/ decoded[i].small_photo_urls.kind = "raise"
                      \/ decoded[i].origin_photo_urls.kind = "raise"
    IN  IF raised THEN <<>> ELSE decoded

\* data_json_html.md as load_html_from_md and BeautifulSoup see it: whether
\* the file can be read, whether the marker sentence and a "<div" follow,
\* whether the HTML holds a div.comment, whether that holds a <p>, and the
\* paragraph's stripped text.
EmptyHtml == [empty |-> TRUE, comment_div |-> FALSE, p |-> FALSE, text |-> ""]

\* app.py:85 load_html_from_md
load_html_from_md(file) ==
    IF file.readable /\ file.marker /\ file.div
    THEN [empty |-> FALSE, comment_div |-> file.comment_div,
          p |-> file.p, text |-> file.text]
    ELSE EmptyHtml

\* app.py:123 extract_agent_comment
extract_agent_comment(html_content) ==
    IF html_content.empty THEN ""
    ELSE IF html_content.comment_div
         THEN (IF html_content.p THEN html_content.text ELSE "")
         ELSE ""

\* ------------------------------------------------------------ preprocessing

\* app.py:161 target_unit
TargetUnit(uc) == IF uc = "원" THEN "원" ELSE "만"

\* app.py:164-173: the copy of raw_df with the *_disp columns and regDate.
\* The five price columns and created_date_utc are columns of every table
\* considered here, so the `in df.columns` tests on them hold.
Preprocess(raw, uc) ==
    LET target_unit == TargetUnit(uc)
    IN  [i \in 1..Len(raw) |->
            raw[i] @@
            [deposit_disp         |-> convert_price(raw[i].deposit, target_unit),
             monthly_rent_disp    |-> convert_price(raw[i].monthly_rent, target_unit),
             premium_disp         |-> convert_price(raw[i].premium, target_unit),
             maintenance_fee_disp |-> convert_price(raw[i].maintenance_fee, target_unit),
             sale_disp            |-> convert_price(raw[i].sale, target_unit),
             regDate              |-> raw[i].created_date_utc.date]]

\* The values of one column over the rows labelled idx, in row order.
Col(df, idx, c) == [k \in 1..Len(idx) |-> df[idx[k]][c]]

AllLabels(df) == [i \in 1..Len(df) |-> i]

\* Series.unique(): the distinct values in order of first appearance.
RECURSIVE Unique(_)
Unique(s) ==
    IF s = <<>> THEN <<>>
    ELSE LET front == Unique(SubSeq(s, 1, Len(s) - 1))
             last  == s[Len(s)]
         IN  IF \E k \in 1..Len(front) : front[k] = last
             THEN front ELSE Append(front, last)

\* Series.min() / Series.max() of a column of numbers without NaN.
Smin(s) == CHOOSE x \in {s[k] : k \in 1..Len(s)} :
              \A y \in {s[k] : k \in 1..Len(s)} : RatLe(x, y)

Smax(s) == CHOOSE x \in {s[k] : k \in 1..Len(s)} :
              \A y \in {s[k] : k \in 1..Len(s)} : RatLe(y, x)

\* Series.median(): NaN on an empty column, else the middle of the sorted
\* values (the mean of the two middle ones for an even count).
Median(s) ==
    IF s = <<>> THEN NaN
    ELSE LET sorted == SortSeq(s, LAMBDA a, b : RatLt(a, b))
             n      == Len(s)
         IN  IF n % 2 = 1 THEN sorted[(n + 1) \div 2]
             ELSE RatDivInt(RatAdd(sorted[n \div 2], sorted[n \div 2 + 1]), 2)

RECURSIVE Sum(_)
Sum(s) == IF s = <<>> THEN FromInt(0)
          ELSE RatAdd(s[1], Sum(Tail(s)))

\* Series.mean(): NaN on an empty column.
Mean(s) == IF s = <<>> THEN NaN ELSE RatDivInt(Sum(s), Len(s))

\* Format spec ".1f" (one decimal, ties to even).
FormatF1(a) ==
    IF isna(a) THEN "nan"
    ELSE LET q == RoundHalfEven(RatMulInt(a, 10))
         IN  ToString(q \div 10) \o "." \o ToString(q % 10)

\* ------------------------------------------------------------------ filters

\* The first option of the select box ("all"; the script spells it in Hangul).
AllIndustries == "ALL"

\* app.py:179 the options of the category select box (their order, sorted
\* after the leading "all" entry, plays no part in what follows).
Industries(df) ==
    {AllIndustries} \cup {df[i].business_middle_code_name : i \in 1..Len(df)}

\* app.py:193-194 min_rent, max_rent over the unfiltered frame
RentBounds(df) ==
    LET rents == Col(df, AllLabels(df), "monthly_rent_disp")
    IN  <<Smin(rents), Smax(rents)>>

\* app.py:206
filter_industry(idx, df, sel) ==
    IF sel # AllIndustries
    THEN SelectSeq(idx, LAMBDA i : df[i].business_middle_code_name = sel)
    ELSE idx

\* app.py:207-208
filter_station(idx, df, cols, search) ==
    IF search # <<>> /\ "near_subway_station" \in cols
    THEN SelectSeq(idx, LAMBDA i : str_contains(df[i].near_subway_station, search))
    ELSE idx

\* app.py:209-210: `== False` holds of 0 and of nothing else (not of NULL).
filter_premium_closed(idx, df, cols, hide) ==
    IF hide /\ "is_premium_closed" \in cols
    THEN SelectSeq(idx, LAMBDA i : df[i].is_premium_closed = FromInt(0))
    ELSE idx

\* The rent filter with its bounds recomputed from the frame it is given: the
\* slider's position kept, its lower end moved to that frame's minimum.
filter_rent_rebased(idx, df, range) ==
    IF idx = <<>> THEN idx
    ELSE LET shift == RatSub(Smin(Col(df, idx, "monthly_rent_disp")),
                             Smin(Col(df, AllLabels(df), "monthly_rent_disp")))
         IN  SelectSeq(idx, LAMBDA i :
                 /\ RatLe(RatAdd(range[1], shift), df[i].monthly_rent_disp)
                 /\ RatLe(df[i].monthly_rent_disp, RatAdd(range[2], shift)))

\* The rent filter with exclusive bounds.
filter_rent_exclusive(idx, df, range) ==
    SelectSeq(idx, LAMBDA i : /\ RatLt(range[1], df[i].monthly_rent_disp)
                              /\ RatLt(df[i].monthly_rent_disp, range[2]))

\* app.py:212-213
filter_rent(idx, df, range) ==
    SelectSeq(idx, LAMBDA i : /\ RatLe(range[1], df[i].monthly_rent_disp)
                              /\ RatLe(df[i].monthly_rent_disp, range[2]))

\* app.py:205-213, in the order of the script.
Filter(df, cols, sel, search, hide, range) ==
    filter_rent(
        filter_premium_closed(
            filter_station(
                filter_industry(AllLabels(df), df, sel),
                df, cols, search),
            df, cols, hide),
        df, range)

\* -------------------------------------------------------------------- views

Placeholder == "-"

\* The rent median metric without the test for an empty frame.
kpi_rent_unguarded(f, df, target_unit) ==
    format_price_display(Median(Col(df, f, "monthly_rent_disp")), target_unit)

\* app.py:227-232 the rent median metric
kpi_rent(f, df, target_unit) ==
    IF f # <<>>
    THEN format_price_display(Median(Col(df, f, "monthly_rent_disp")), target_unit)
    ELSE Placeholder

\* app.py:233-238 the deposit median metric
kpi_deposit(f, df, target_unit) ==
    IF f # <<>>
    THEN format_price_display(Median(Col(df, f, "deposit_disp")), target_unit)
    ELSE Placeholder

\* app.py:239-244 the mean size metric
kpi_size(f, df) ==
    IF f # <<>>
    THEN FormatF1(Mean(Col(df, f, "size"))) \o " ㎡"
    ELSE Placeholder

\* groupby('regDate').size(): one point per date, dates ascending.
RECURSIVE GroupCounts(_, _)
GroupCounts(dates, all) ==
    IF dates = {} THEN <<>>
    ELSE LET d == CHOOSE x \in dates : \A y \in dates : x <= y
         IN  <<[regDate |-> d,
                count   |-> Cardinality({k \in 1..Len(all) : all[k] = d})]>>
             \o GroupCounts(dates \ {d}, all)

\* app.py:280-291 the registration trend
trend_view(f, df) ==
    IF f # <<>>
    THEN LET all == Col(df, f, "regDate")
         IN  [drawn  |-> TRUE,
              points |-> GroupCounts({all[k] : k \in 1..Len(all)}, all)]
    ELSE [drawn |-> FALSE, points |-> <<>>]

\* app.py:299-323 the result table, price cells formatted
table_view(f, df, target_unit) ==
    [k \in 1..Len(f) |->
        LET r == df[f[k]]
        IN  [title           |-> r.title,
             deposit         |-> format_price_display(r.deposit_disp, target_unit),
             monthly_rent    |-> format_price_display(r.monthly_rent_disp, target_unit),
             premium         |-> format_price_display(r.premium_disp, target_unit),
             maintenance_fee |-> format_price_display(r.maintenance_fee_disp, target_unit)]]

\* app.py:328 the options of the detail select box
TitleOptions(f, df) == Unique(Col(df, f, "title"))

\* app.py:329 f_df[f_df['title'] == selected_title].iloc[0]; an empty
\* selection makes iloc[0] raise IndexError.
first_match(f, df, title) ==
    LET hits == SelectSeq(f, LAMBDA i : df[i].title = title)
    IN  IF hits = <<>> THEN 0 ELSE hits[1]

\* app.py:339-343 the gallery: at most six photos, the preview as fallback.
\* Slicing and enumerating a str yields its characters.
gallery(item) ==
    LET photos == IF item.small_photo_urls.v # <<>>
                  THEN item.small_photo_urls.v
                  ELSE <<item.preview_photo_url>>
    IN  SubSeq(photos, 1, IF Len(photos) < 6 THEN Len(photos) ELSE 6)

\* The marker of app.py:362, two syllables: written here as "i", "c".
Marker == <<"i", "c">>

\* The text of app.py:363 shown in place of an empty comment
\* ("the detailed comment is being prepared").
CommentPending == "comment pending"

\* The text of app.py:365 ("no agent description is registered").
CommentUnavailable == "comment unavailable"

\* The agent comment without the test for the marker.
agent_comment_any_title(item, comment) ==
    IF comment # "" THEN comment ELSE CommentPending

\* app.py:362-365 the agent comment
agent_comment(item, comment) ==
    IF Contains(item.title, Marker)
    THEN (IF comment # "" THEN comment ELSE CommentPending)
    ELSE CommentUnavailable

\* The detail metrics formatted with format_price_display's default unit.
detail_metrics_default_unit(item, target_unit) ==
    [deposit         |-> format_price_display(item.deposit_disp, "만"),
     monthly_rent    |-> format_price_display(item.monthly_rent_disp, "만"),
     premium         |-> format_price_display(item.premium_disp, "만"),
     maintenance_fee |-> format_price_display(item.maintenance_fee_disp, "만")]

\* app.py:351-355 the four price metrics of the detail panel
detail_metrics(item, target_unit) ==
    [deposit         |-> format_price_display(item.deposit_disp, target_unit),
     monthly_rent    |-> format_price_display(item.monthly_rent_disp, target_unit),
     premium         |-> format_price_display(item.premium_disp, target_unit),
     maintenance_fee |-> format_price_display(item.maintenance_fee_disp, target_unit)]

NoDetail ==
    [shown |-> FALSE, error |-> "", label |-> 0, title |-> <<>>,
     metrics |-> [deposit |-> "", monthly_rent |-> "", premium |-> "",
                  maintenance_fee |-> ""],
     photos |-> <<>>, comment |-> ""]

\* app.py:328-365 the detail panel of the selected record
detail_view(f, df, title, target_unit, comment) ==
    LET label == first_match(f, df, title)
    IN  IF label = 0
        THEN [NoDetail EXCEPT !.error = "IndexError"]
        ELSE [shown   |-> TRUE, error |-> "", label |-> label,
              title   |-> df[label].title,
              metrics |-> detail_metrics(df[label], target_unit),
              photos  |-> gallery(df[label]),
              comment |-> agent_comment(df[label], comment)]

\* app.py:222-367 everything below the filters, for the filtered labels f.
View(f, df, uc, title, comment) ==
    LET target_unit == TargetUnit(uc)
    IN  [count       |-> Len(f),
         kpi_rent    |-> kpi_rent(f, df, target_unit),
         kpi_deposit |-> kpi_deposit(f, df, target_unit),
         kpi_size    |-> kpi_size(f, df),
         charts      |-> f # <<>>,
         trend       |-> trend_view(f, df),
         table       |-> IF f # <<>> THEN table_view(f, df, target_unit) ELSE <<>>,
         detail      |-> IF f # <<>>
                         THEN detail_view(f, df, title, target_unit, comment)
                         ELSE NoDetail]

NoView == View(<<>>, <<>>, "만원", <<>>, "")

\* ------------------------------------------------------------- render cycle

UnitChoices == {"만원", "원"}

\* The values the rent slider is dragged to here: the rents of the table.
SliderStops(df) == {df[i].monthly_rent_disp : i \in 1..Len(df)}

\* One run of the script from line 159 on, with the widgets holding uc, sel,
\* search, hide and range.  The detail select box keeps its choice while its
\* options stay the same and falls back to its first option when they change
\* (Streamlit identifies a widget by its label and arguments).
Rerun(uc, sel, search, hide, range, title) ==
    \E df \in {Preprocess(raw_df, uc)} :
    \E bounds \in {RentBounds(df)} :
    \* app.py:196-200: without a slider the range is the collapsed pair
    \E eff \in {IF RatLt(bounds[1], bounds[2]) THEN range ELSE bounds} :
    \E f \in {Filter(df, columns, sel, search, hide, eff)} :
    \E opts \in {TitleOptions(f, df)} :
    \E old_opts \in {TitleOptions(f_df, df)} :
    \E chosen \in {IF f = <<>> THEN <<>>
                    ELSE IF opts = old_opts /\ (\E k \in 1..Len(opts) : opts[k] = title)
                         THEN title
                    ELSE opts[1]} :
        /\ unit_choice' = uc
        /\ sel_ind' = sel
        /\ search_station' = search
        /\ hide_premium_closed' = hide
        /\ rent_range' = eff
        /\ selected_title' = chosen
        /\ f_df' = f
        /\ view' = View(f, df, uc, chosen, base_comment)
        /\ UNCHANGED <<pc, db, columns, raw_df, md_file, base_comment, call, ret>>

\* The first run: lines 148-154 load the table and the comment, then stop on
\* an empty table or render with every widget at its default.
FirstRun ==
    /\ pc = "start"
    /\ LET loaded  == load_db_data(db, columns)
           comment == extract_agent_comment(load_html_from_md(md_file))
       IN  /\ raw_df' = loaded
           /\ base_comment' = comment
           /\ IF loaded = <<>>
              THEN /\ pc' = "stopped"
                   /\ UNCHANGED <<unit_choice, sel_ind, search_station,
                                  hide_premium_closed, rent_range,
                                  selected_title, f_df, view>>
              ELSE LET df    == Preprocess(loaded, "만원")
                       range == RentBounds(df)
                       f     == Filter(df, columns, AllIndustries, <<>>, FALSE, range)
                       first == IF f = <<>> THEN <<>> ELSE TitleOptions(f, df)[1]
                   IN  /\ pc' = "running"
                       /\ unit_choice' = "만원"
                       /\ sel_ind' = AllIndustries
                       /\ search_station' = <<>>
                       /\ hide_premium_closed' = FALSE
                       /\ rent_range' = range
                       /\ selected_title' = first
                       /\ f_df' = f
                       /\ view' = View(f, df, "만원", first, comment)
    /\ UNCHANGED <<db, columns, md_file, call, ret>>

\* The unit radio.  The slider's label and bounds change with the unit, so it
\* is a new widget and starts at the full range (app.py:197).
ChooseUnit ==
    /\ pc = "running"
    /\ \E uc \in UnitChoices \ {unit_choice} :
          Rerun(uc, sel_ind, search_station, hide_premium_closed,
                RentBounds(Preprocess(raw_df, uc)), selected_title)

\* The category select box.
ChooseIndustry ==
    /\ pc = "running"
    /\ \E sel \in Industries(raw_df) \ {sel_ind} :
          Rerun(unit_choice, sel, search_station, hide_premium_closed,
                rent_range, selected_title)

SearchTexts == {<<>>, <<"a">>, <<".">>}

\* The station text box.
TypeStation ==
    /\ pc = "running"
    /\ \E s \in SearchTexts \ {search_station} :
          Rerun(unit_choice, sel_ind, s, hide_premium_closed,
                rent_range, selected_title)

\* The check box, drawn only when the table has the flag column (app.py:188).
TogglePremiumClosed ==
    /\ pc = "running"
    /\ "is_premium_closed" \in columns
    /\ Rerun(unit_choice, sel_ind, search_station, ~hide_premium_closed,
             rent_range, selected_title)

\* The rent slider, drawn only when min_rent < max_rent (app.py:196).
MoveSlider ==
    /\ pc = "running"
    /\ LET df == Preprocess(raw_df, unit_choice)
           b  == RentBounds(df)
       IN  /\ RatLt(b[1], b[2])
           /\ \E lo, hi \in SliderStops(df) :
                 /\ RatLe(lo, hi)
                 /\ <<lo, hi>> # rent_range
                 /\ Rerun(unit_choice, sel_ind, search_station,
                          hide_premium_closed, <<lo, hi>>, selected_title)

\* The detail select box, drawn only when the filtered frame has rows.
SelectTitle ==
    /\ pc = "running"
    /\ f_df # <<>>
    /\ LET opts == TitleOptions(f_df, Preprocess(raw_df, unit_choice))
       IN  \E k \in 1..Len(opts) :
              /\ opts[k] # selected_title
              /\ Rerun(unit_choice, sel_ind, search_station,
                       hide_premium_closed, rent_range, opts[k])

Next ==
    \/ FirstRun
    \/ ChooseUnit
    \/ ChooseIndustry
    \/ TypeStation
    \/ TogglePremiumClosed
    \/ MoveSlider
    \/ SelectTitle

\* ------------------------------------------------------------------ inputs

MaxRows == 2

AllColumns ==
    {"title", "business_middle_code_name", "near_subway_station",
     "is_premium_closed", "deposit", "monthly_rent", "premium",
     "maintenance_fee", "sale", "size", "created_date_utc",
     "small_photo_urls", "origin_photo_urls", "preview_photo_url"}

\* A stored row of nemo_stores; prices are in units of 1,000 won.
Row(title, industry, station, closed, deposit, rent, size, date, photos) ==
    [title                     |-> title,
     business_middle_code_name |-> industry,
     near_subway_station       |-> station,
     is_premium_closed         |-> closed,
     deposit                   |-> deposit,
     monthly_rent              |-> rent,
     premium                   |-> FromInt(30000),
     maintenance_fee           |-> NaN,
     sale                      |-> NaN,
     size                      |-> size,
     created_date_utc          |-> [date |-> date, time |-> 0],
     small_photo_urls          |-> photos,
     origin_photo_urls         |-> NoneText,
     preview_photo_url         |-> "p"]

\* The tables of at most MaxRows rows over a set of rows.
Tables(rows) == UNION {[1..n -> rows] : n \in 0..MaxRows}

\* Titles t1, t2, ... by position: the title as the key of a listing.
KeyedByTitle(t) == [i \in DOMAIN t |-> [t[i] EXCEPT !.title = <<"t", ToString(i)>>]]

NoMdFile ==
    [readable |-> FALSE, marker |-> FALSE, div |-> FALSE,
     comment_div |-> FALSE, p |-> FALSE, text |-> ""]

\* What every specification starts from: nothing loaded, nothing drawn.
Start(tables, colsets, mdfiles) ==
    /\ pc = "start"
    /\ db \in tables
    /\ columns \in colsets
    /\ \A i \in 1..Len(db) :
          /\ "is_premium_closed" \notin columns => isna(db[i].is_premium_closed)
          /\ "near_subway_station" \notin columns => db[i].near_subway_station.na
    /\ md_file \in mdfiles
    /\ raw_df = <<>>
    /\ base_comment = ""
    /\ unit_choice = "만원"
    /\ sel_ind = AllIndustries
    /\ search_station = <<>>
    /\ hide_premium_closed = FALSE
    /\ rent_range = <<FromInt(0), FromInt(0)>>
    /\ selected_title = <<>>
    /\ f_df = <<>>
    /\ view = NoView
    /\ call = [fn |-> "", val |-> NaN, unit |-> ""]
    /\ ret = [num |-> NaN, text |-> ""]

\* Tables that differ in what the filters read: category and rent, station
\* and premium flag (0, 1 or NULL).
FilterRows ==
    {Row(<<"t">>, x[1], y[1], y[2], FromInt(10000), x[2], FromInt(10), 1, NoneText) :
        x \in {<<"A", FromInt(500)>>, <<"B", FromInt(800)>>},
        y \in {<<NoneText, FromInt(0)>>, <<Text(<<"a">>), FromInt(1)>>,
               <<Text(<<"b">>), NaN>>}}

InitFilter ==
    Start({KeyedByTitle(t) : t \in Tables(FilterRows)},
          {AllColumns, AllColumns \ {"is_premium_closed"},
           AllColumns \ {"near_subway_station"}},
          {NoMdFile})

SpecFilter == InitFilter /\ [][Next]_vars

\* Tables that differ in what the views show: titles with and without the
\* marker (twice the same title too), a station or none, prices that are
\* missing, zero, whole or fractional in units of 10,000 won, sizes and
\* dates.
ViewRows ==
    {Row(x[1], "A", x[3], FromInt(0), y[2], y[1], y[3], x[2], NoneText) :
        x \in {<<<<"x", "i", "c">>, 1, Text(<<"a">>)>>, <<<<"t">>, 2, NoneText>>},
        y \in {<<NaN, FromInt(100005), FromInt(25)>>,
               <<FromInt(1205), FromInt(0), FromInt(10)>>}}

MdFiles ==
    {NoMdFile,
     [readable |-> TRUE, marker |-> TRUE, div |-> TRUE,
      comment_div |-> TRUE, p |-> TRUE, text |-> "memo"],
     [readable |-> TRUE, marker |-> TRUE, div |-> TRUE,
      comment_div |-> TRUE, p |-> FALSE, text |-> ""]}

InitView == Start(Tables(ViewRows), {AllColumns}, MdFiles)

SpecView == InitView /\ [][Next]_vars

\* Tables that differ in the stored text of small_photo_urls: NULL, empty,
\* JSON arrays, a text that opens like an array but is none, and plain text.
PhotoTexts ==
    {NoneText, Text(<<>>), Text(<<"[", "]">>), Text(<<"[", "u", "]">>),
     Text(<<"[", "u", ",", "u", "]">>), Text(<<"[", "u">>), Text(<<"u">>)}

LoadRows ==
    {Row(x[1], "A", Text(<<"a">>), FromInt(0), FromInt(10000), x[2], FromInt(10), 1, photos) :
        x \in {<<<<"t", "1">>, FromInt(500)>>, <<<<"t", "2">>, FromInt(800)>>},
        photos \in PhotoTexts}

InitLoad == Start(Tables(LoadRows), {AllColumns}, {NoMdFile})

SpecLoad == InitLoad /\ [][Next]_vars

\* ------------------------------------------------- the helpers in isolation

MaxStored == 25

Units == {"만", "원"}

\* Stored prices (units of 1,000 won): missing, small whole numbers, amounts
\* around 100,000 (one 억 in the smaller unit) and far above it, and amounts
\* with a fraction.
StoredValues ==
    {NaN} \cup {FromInt(n) : n \in 0..MaxStored}
    \cup {FromInt(n) : n \in {99990, 99995, 99996, 100000, 100004, 100005,
                              100010, 123450, 200000, 12300000, 12345678}}
    \cup {Rat(3, 2), Rat(1, 2000)}

\* The largest stored price converted to won here: above it the product
\* with 1,000 leaves the range of the checker's integers.
MaxWonStored == 2000000

\* The (stored value, unit) pairs the helpers are called with.
PriceInputs ==
    {x \in StoredValues \X Units :
        x[2] = "원" => (isna(x[1]) \/ RatTrunc(x[1]) <= MaxWonStored)}

InitPrice ==
    /\ pc = "calc"
    /\ db = <<>>
    /\ columns = AllColumns
    /\ md_file = NoMdFile
    /\ raw_df = <<>>
    /\ base_comment = ""
    /\ unit_choice = "만원"
    /\ sel_ind = AllIndustries
    /\ search_station = <<>>
    /\ hide_premium_closed = FALSE
    /\ rent_range = <<FromInt(0), FromInt(0)>>
    /\ selected_title = <<>>
    /\ f_df = <<>>
    /\ view = NoView
    /\ call = [fn |-> "", val |-> NaN, unit |-> ""]
    /\ ret = [num |-> NaN, text |-> ""]

Frozen ==
    UNCHANGED <<pc, db, columns, raw_df, unit_choice, sel_ind, search_station,
                hide_premium_closed, rent_range, selected_title, md_file,
                base_comment, f_df, view>>

\* A call of convert_price on a stored value.
CallConvertPrice ==
    /\ pc = "calc"
    /\ \E x \in PriceInputs :
          /\ call' = [fn |-> "convert_price", val |-> x[1], unit |-> x[2]]
          /\ ret' = [num |-> convert_price(x[1], x[2]), text |-> ""]
    /\ Frozen

\* A call of format_price_display on a display value: a stored value
\* converted to the unit it is formatted in.
CallFormatPriceDisplay ==
    /\ pc = "calc"
    /\ \E x \in PriceInputs :
          /\ call' = [fn |-> "format_price_display",
                      val |-> convert_price(x[1], x[2]), unit |-> x[2]]
          /\ ret' = [num |-> NaN,
                     text |-> format_price_display(convert_price(x[1], x[2]), x[2])]
    /\ Frozen

NextPrice == CallConvertPrice \/ CallFormatPriceDisplay

SpecPrice == InitPrice /\ [][NextPrice]_vars

\* ------------------------------------------------------------------ claims

\* The frame of the current run and the labels of a list of rows.
CurrentDf == Preprocess(raw_df, unit_choice)

Labels(idx) == {idx[k] : k \in 1..Len(idx)}

\* The four filters by number, with the criteria the widgets hold.
FilterStep(k, idx, df) ==
    CASE k = 1 -> filter_industry(idx, df, sel_ind)
      [] k = 2 -> filter_station(idx, df, columns, search_station)
      [] k = 3 -> filter_premium_closed(idx, df, columns, hide_premium_closed)
      [] k = 4 -> filter_rent(idx, df, rent_range)

FilterInOrder(p, df) ==
    FilterStep(p[4], FilterStep(p[3], FilterStep(p[2],
        FilterStep(p[1], AllLabels(df), df), df), df), df)

\* What the specification says a row must satisfy to be kept.
MeetsCriteria(r) ==
    /\ sel_ind = AllIndustries \/ r.business_middle_code_name = sel_ind
    /\ \/ search_station = <<>>
       \/ ~r.near_subway_station.na /\ Contains(r.near_subway_station.s, search_station)
    /\ ~hide_premium_closed \/ r.is_premium_closed # FromInt(1)
    /\ RatLe(rent_range[1], r.monthly_rent_disp)
    /\ RatLe(r.monthly_rent_disp, rent_range[2])

\* C1 (as stated): the filtered table is exactly the set of rows that meet
\* every active criterion: category equal, station containing the entered
\* substring (missing station excluded), premium flag not true when the
\* exclusion is on, rent within the inclusive range.
C1_FilteredIsConjunction ==
    pc = "running" =>
        LET df == CurrentDf
        IN  Labels(f_df) = {i \in 1..Len(df) : MeetsCriteria(df[i])}

\* C6 (as stated): with the exclusion on, the premium criterion removes
\* exactly the rows whose flag is true, and keeps every other row that the
\* remaining criteria keep.
C6_RemovesExactlyTrueFlags ==
    (pc = "running" /\ hide_premium_closed) =>
        LET df     == CurrentDf
            others == filter_rent(filter_station(filter_industry(
                          AllLabels(df), df, sel_ind), df, columns, search_station),
                          df, rent_range)
        IN  f_df = SelectSeq(others, LAMBDA i : df[i].is_premium_closed # FromInt(1))

\* C7: the four filters applied in any order give the rows of f_df, and the
\* range they compare with lies within the bounds of the unfiltered,
\* unit-converted rent column.
C7_OrderIndependent ==
    pc = "running" =>
        LET df == CurrentDf
            b  == RentBounds(df)
        IN  /\ \A p \in Permutations(1..4) : FilterInOrder(p, df) = f_df
            /\ RatLe(b[1], rent_range[1])
            /\ RatLe(rent_range[1], rent_range[2])
            /\ RatLe(rent_range[2], b[2])

\* A run in which every criterion is active and the filters removed some rows
\* but not all.
C7_Witness ==
    /\ pc = "running"
    /\ sel_ind # AllIndustries
    /\ search_station # <<>>
    /\ hide_premium_closed
    /\ rent_range[1] = rent_range[2]
    /\ Len(raw_df) = 2
    /\ Len(f_df) = 1

\* C5: when the rents of the unfiltered table are all equal, the range is
\* that single value, and with no other criterion the filtered table is the
\* whole table.
C5_DegenerateRange ==
    pc = "running" =>
        LET df == CurrentDf
            b  == RentBounds(df)
        IN  b[1] = b[2] =>
              /\ rent_range = b
              /\ (sel_ind = AllIndustries /\ search_station = <<>>
                    /\ ~hide_premium_closed)
                      => (f_df = AllLabels(df) /\ f_df # <<>>)

\* Two rows of equal rent, no criterion, both rows kept.
C5_Witness ==
    /\ pc = "running"
    /\ Len(raw_df) = 2
    /\ raw_df[1].monthly_rent = raw_df[2].monthly_rent
    /\ sel_ind = AllIndustries /\ search_station = <<>> /\ ~hide_premium_closed
    /\ rent_range[1] = rent_range[2]
    /\ f_df = <<1, 2>>

\* A stored price as the unit of the radio button shows it.
Shown(val) ==
    format_price_display(convert_price(val, TargetUnit(unit_choice)),
                         TargetUnit(unit_choice))

PricesShown(cells, r) ==
    /\ cells.deposit = Shown(r.deposit)
    /\ cells.monthly_rent = Shown(r.monthly_rent)
    /\ cells.premium = Shown(r.premium)
    /\ cells.maintenance_fee = Shown(r.maintenance_fee)

\* C2: after any sequence of interactions, every surface shows its prices in
\* the unit the radio button holds: each table cell and each detail metric is
\* the stored value converted to and formatted in that unit, the two medians
\* are medians of the values converted to that unit, formatted in it, and
\* the rent range lies within the rents converted to that unit.
C2_OneUnitEverywhere ==
    pc = "running" =>
        LET U     == TargetUnit(unit_choice)
            rents == [k \in 1..Len(f_df) |-> convert_price(raw_df[f_df[k]].monthly_rent, U)]
            deps  == [k \in 1..Len(f_df) |-> convert_price(raw_df[f_df[k]].deposit, U)]
            all   == [i \in 1..Len(raw_df) |-> convert_price(raw_df[i].monthly_rent, U)]
        IN  /\ Len(view.table) = Len(f_df)
            /\ \A k \in 1..Len(f_df) : PricesShown(view.table[k], raw_df[f_df[k]])
            /\ view.detail.shown =>
                  PricesShown(view.detail.metrics, raw_df[view.detail.label])
            /\ f_df # <<>> =>
                  /\ view.kpi_rent = format_price_display(Median(rents), U)
                  /\ view.kpi_deposit = format_price_display(Median(deps), U)
            /\ RatLe(Smin(all), rent_range[1])
            /\ RatLe(rent_range[2], Smax(all))

\* The unit was switched to won while two rows are on display: the table,
\* the detail panel and the rent median all show won.
C2_Witness ==
    /\ pc = "running"
    /\ unit_choice = "원"
    /\ Len(f_df) = 2
    /\ view.detail.shown
    /\ view.detail.metrics.monthly_rent = "₩1,205,000"
    /\ view.table[1].deposit = "₩100,005,000"
    /\ view.kpi_rent = "₩602,500"

\* C3: when the filters leave no row, the count is 0, the three metrics show
\* the placeholder, no chart and no trend is drawn, the table is empty and
\* the detail panel takes no row and raises nothing.
C3_EmptyResultDegrades ==
    (pc = "running" /\ f_df = <<>>) =>
        /\ view.count = 0
        /\ view.kpi_rent = Placeholder
        /\ view.kpi_deposit = Placeholder
        /\ view.kpi_size = Placeholder
        /\ ~view.charts
        /\ ~view.trend.drawn /\ view.trend.points = <<>>
        /\ view.table = <<>>
        /\ ~view.detail.shown /\ view.detail.error = ""

\* A loaded table of two rows from which the filters left none.
C3_Witness ==
    /\ pc = "running"
    /\ Len(raw_df) = 2
    /\ search_station # <<>>
    /\ f_df = <<>>

\* C10 (as stated): the comment shown is the fallback text when the title
\* holds the marker and the "not available" text otherwise.
C10_FallbackOrUnavailable ==
    (pc = "running" /\ view.detail.shown) =>
        view.detail.comment =
            (IF Contains(view.detail.title, Marker)
             THEN base_comment ELSE CommentUnavailable)

\* C10 (amended): the comment shown is the fallback text when the title holds
\* the marker and the fallback text is not empty, the "pending" text when the
\* title holds the marker and the fallback text is empty, and the "not
\* available" text otherwise.
C10_FallbackPendingOrUnavailable ==
    (pc = "running" /\ view.detail.shown) =>
        /\ selected_title = view.detail.title
        /\ view.detail.comment =
              (IF Contains(view.detail.title, Marker)
               THEN (IF base_comment = "" THEN CommentPending ELSE base_comment)
               ELSE CommentUnavailable)
        /\ view.detail.comment \in {base_comment, CommentPending, CommentUnavailable}

\* A record without the marker is selected while the fallback text is not
\* empty and a record with the marker is in the table.
C10_Witness ==
    /\ pc = "running"
    /\ base_comment = "memo"
    /\ view.detail.shown
    /\ Len(f_df) = 2
    /\ Contains(raw_df[1].title, Marker)
    /\ ~Contains(view.detail.title, Marker)
    /\ view.detail.comment = CommentUnavailable

\* C4 (as stated): a stored photo list that is empty or is no JSON array
\* decodes to the empty list, and the load keeps every row.
C4_MalformedDecodesToEmpty ==
    pc # "start" =>
        /\ Len(raw_df) = Len(db)
        /\ \A i \in 1..Len(raw_df) :
              (db[i].small_photo_urls.na \/ ~IsJsonArray(db[i].small_photo_urls.s))
                  => raw_df[i].small_photo_urls = [kind |-> "list", v |-> <<>>]

\* C8 (as stated): convert_price gives v/10 in the smaller unit and v*1000
\* in won, exactly, and 0 for a missing value.
C8_ConvertExact ==
    call.fn = "convert_price" =>
        ret.num = (IF isna(call.val) THEN FromInt(0)
                   ELSE IF call.unit = "만" THEN RatDivInt(call.val, MinorDivisor)
                   ELSE RatMulInt(call.val, MajorFactor))

\* The text of a display value, the 억 part followed by the 만 part whenever
\* the test `more` of the remainder holds.
FormatText(v, unit, more) ==
    IF v = FromInt(0) THEN "-"
    ELSE IF unit = "만" THEN
        IF RatLe(FromInt(EokUnit), v)
        THEN IF more
             THEN ToString(RatFloorDiv(v, EokUnit)) \o "억 "
                  \o Grouped(RatTrunc(RatMod(v, EokUnit))) \o "만"
             ELSE ToString(RatFloorDiv(v, EokUnit)) \o "억"
        ELSE Grouped(RoundHalfEven(v)) \o "만"
    ELSE "₩" \o Grouped(RoundHalfEven(v))

\* C9 (as stated): 0 is "-"; in the smaller unit a value of 10,000 or more
\* is "{v div 10000}억 {v mod 10000}만" when the remainder v mod 10000 is
\* greater than 0 and "{v div 10000}억" when it is 0, a smaller value the
\* grouped integer and "만"; in won, "₩" and the grouped integer.
C9_FormatAsStated ==
    call.fn = "format_price_display" =>
        ret.text = FormatText(call.val, call.unit,
                              RatLt(FromInt(0), RatMod(call.val, EokUnit)))

\* C9 (amended): as stated, but the 만 part is shown when the whole part of
\* the remainder is greater than 0 (a remainder below 1 is dropped), and
\* "the grouped integer" is the value rounded to the nearest integer, ties
\* to even.  With the examples of the specification.
C9_FormatWholeRemainder ==
    call.fn = "format_price_display" =>
        /\ ret.text = FormatText(call.val, call.unit,
                                 RatTrunc(RatMod(call.val, EokUnit)) > 0)
        /\ call.val = FromInt(0) => ret.text = "-"
        /\ (call.unit = "만" /\ call.val = FromInt(10000)) => ret.text = "1억"
        /\ (call.unit = "만" /\ call.val = FromInt(12345)) => ret.text = "1억 2,345만"
        /\ (call.unit = "만" /\ call.val = FromInt(9999)) => ret.text = "9,999만"
        /\ (call.unit = "만" /\ call.val = FromInt(1230000)) => ret.text = "123억"
        /\ (call.unit = "원" /\ call.val = FromInt(1500)) => ret.text = "₩1,500"

\* format_price_display was called in the smaller unit on 10,000.5 and gave
\* "1억".
C9_Witness ==
    /\ call.fn = "format_price_display"
    /\ call.unit = "만"
    /\ call.val = Rat(100005, 10)
    /\ ret.text = "1억"

====
